---- MODULE Spec2Model ----
(***************************************************************************)
(* A model of the HTTP cache policy evaluator (src/src/lib.rs).            *)
(*                                                                         *)
(* Representation.                                                         *)
(*   - Time is a natural number of seconds; a Duration is a natural.       *)
(*   - Option<T>: None is <<>>, Some(x) is <<x>>.                          *)
(*   - A HeaderMap is a function from (lowercase) header names to one      *)
(*     value per name.  A header whose value the code splits on ','        *)
(*     (Cache-Control, Vary, Connection, Warning, If-None-Match) is the    *)
(*     sequence of its trimmed comma-separated items; every other header   *)
(*     is a string.                                                        *)
(*   - An item of Cache-Control is [k |-> name, v |-> Option<raw>], the    *)
(*     text left and right of the first '='; a raw argument is             *)
(*     [q |-> written inside double quotes, s |-> the text].               *)
(*   - An entity tag is [weak |-> it starts with W/, tag |-> the rest].    *)
(***************************************************************************)
EXTENDS Integers, Sequences, FiniteSets, TLC

VARIABLES policy, last

vars == <<policy, last>>

\* ------------------------------------------------------------------ bounds

\* Instants are 0 .. MaxTime.
MaxTime == 3

\* Arguments of max-age, s-maxage, max-stale, min-fresh and Age are 0 .. MaxSecs.
MaxSecs == 2

\* ------------------------------------------------------------------ helpers

None == <<>>

Some(x) == <<x>>

IsSome(o) == o /= <<>>

Unwrap(o) == o[1]

Max(a, b) == IF a >= b THEN a ELSE b

NoHeaders == [n \in {} |-> ""]

\* HeaderMap::get
Get(h, name) == IF name \in DOMAIN h THEN Some(h[name]) ELSE None

\* HeaderMap::contains_key
ContainsKey(h, name) == name \in DOMAIN h

\* HeaderMap::insert (one value per name: the new value replaces the old)
Insert(h, name, value) == [n \in (DOMAIN h) \cup {name} |-> IF n = name THEN value ELSE h[n]]

\* HeaderMap::remove
Remove(h, name) == [n \in (DOMAIN h) \ {name} |-> h[n]]

RemoveAll(h, names) == [n \in (DOMAIN h) \ names |-> h[n]]

\* The items of a comma-split header, empty when the header is absent.
get_all_comma(h, name) == IF name \in DOMAIN h THEN h[name] ELSE <<>>

Range(s) == {s[i] : i \in 1..Len(s)}

RECURSIVE SelectSeqBy(_, _)
SelectSeqBy(s, keep) ==
    IF s = <<>> THEN <<>>
    ELSE IF Head(s) \in keep THEN <<Head(s)>> \o SelectSeqBy(Tail(s), keep)
    ELSE SelectSeqBy(Tail(s), keep)

\* str::parse::<u64>: the decimal strings of the naturals the model uses parse,
\* every other string does not.
MaxParse == MaxSecs + MaxTime

ParseU64(s) ==
    IF \E n \in 0..MaxParse : ToString(n) = s
    THEN Some(CHOOSE n \in 0..MaxParse : ToString(n) = s)
    ELSE None

\* str::contains("no-cache") on the Pragma values of the model.
ContainsNoCache(s) == s \in {"no-cache", "x, no-cache"}

\* httpdate::fmt_http_date and httpdate::parse_http_date: an instant t is
\* written "date:t"; any other string is not a date.
MaxDate == MaxTime + MaxSecs

fmt_http_date(t) == "date:" \o ToString(t)

parse_http_date(s) ==
    IF \E t \in 0..MaxDate : fmt_http_date(t) = s
    THEN Some(CHOOSE t \in 0..MaxDate : fmt_http_date(t) = s)
    ELSE None

\* ------------------------------------------------------------------ constants

STATUS_CODE_CACHEABLE_BY_DEFAULT == {200, 203, 204, 206, 300, 301, 308, 404, 405, 410, 414, 501}

\* UNDERSTOOD_STATUSES with 304 among them.
UNDERSTOOD_STATUSES_AND_304 ==
    {200, 203, 204, 300, 301, 302, 303, 304, 307, 308, 404, 405, 410, 414, 501}

UNDERSTOOD_STATUSES == {200, 203, 204, 300, 301, 302, 303, 307, 308, 404, 405, 410, 414, 501}

HOP_BY_HOP_HEADERS ==
    {"date", "connection", "keep-alive", "proxy-authenticate", "proxy-authorization",
     "te", "trailer", "transfer-encoding", "upgrade"}

EXCLUDED_FROM_REVALIDATION_UPDATE ==
    {"content-length", "content-encoding", "transfer-encoding", "content-range"}

NOT_MODIFIED == 304

\* ------------------------------------------------------------------ Cache-Control

\* The argument as stored: v.trim_matches('"').
Unquote(v) == IF IsSome(v) THEN Some(Unwrap(v).s) ELSE None

\* e.get().as_deref() != v compares the stored (unquoted) argument with the
\* argument as written, quotes included.
SameAsWritten(stored, v) ==
    IF IsSome(v) THEN IsSome(stored) /\ ~Unwrap(v).q /\ Unwrap(stored) = Unwrap(v).s
    ELSE ~IsSome(stored)

RECURSIVE ParseItems(_, _, _)
ParseItems(items, cc, is_valid) ==
    IF items = <<>> THEN [cc |-> cc, is_valid |-> is_valid]
    ELSE LET part == Head(items) IN
         IF part.k = "" THEN ParseItems(Tail(items), cc, is_valid)
         ELSE IF part.k \in DOMAIN cc
              THEN ParseItems(Tail(items), cc, is_valid /\ SameAsWritten(cc[part.k], part.v))
              ELSE ParseItems(Tail(items), cc @@ (part.k :> Unquote(part.v)), is_valid)

parse_cache_control(headers, name) ==
    LET r == ParseItems(get_all_comma(headers, name), NoHeaders, TRUE)
    IN  IF ~r.is_valid THEN Insert(r.cc, "must-revalidate", None) ELSE r.cc

\* Argument texts that hold a byte that is not ASCII alphanumeric.
NonAlphanumeric == {"a b", "x-y"}

needs_quote(s) == s = "" \/ s \in NonAlphanumeric

\* The HashMap is written out in its iteration order, which is unspecified: the
\* model writes the directives in one fixed order.
RECURSIVE FormatNames(_, _)
FormatNames(cc, names) ==
    IF names = {} THEN <<>>
    ELSE LET k == CHOOSE n \in names : TRUE
             v == cc[k]
         IN  <<[k |-> k,
                v |-> IF IsSome(v) THEN Some([q |-> needs_quote(Unwrap(v)), s |-> Unwrap(v)])
                      ELSE None]>>
             \o FormatNames(cc, names \ {k})

format_cache_control(cc) == FormatNames(cc, DOMAIN cc)

\* ------------------------------------------------------------------ Cache-Control as text

\* A header text is a sequence of bytes; the bytes of the model are one
\* letter, the comma, the equals sign, the double quote and the space.
MaxText == 5

Bytes == {"a", ",", "=", "\"", " "}

is_ascii_alphanumeric(b) == b = "a"

RECURSIVE trim_start_matches(_, _)
trim_start_matches(t, b) ==
    IF t /= <<>> /\ Head(t) = b THEN trim_start_matches(Tail(t), b) ELSE t

RECURSIVE trim_end_matches(_, _)
trim_end_matches(t, b) ==
    IF t /= <<>> /\ t[Len(t)] = b THEN trim_end_matches(SubSeq(t, 1, Len(t) - 1), b) ELSE t

\* str::trim_matches, and str::trim on texts whose only whitespace is the space.
trim_matches(t, b) == trim_end_matches(trim_start_matches(t, b), b)

trim(t) == trim_matches(t, " ")

\* str::split: the pieces of t between the occurrences of b.
RECURSIVE split(_, _)
split(t, b) ==
    IF \E i \in 1..Len(t) : t[i] = b
    THEN LET i == CHOOSE j \in 1..Len(t) : t[j] = b /\ \A l \in 1..(j - 1) : t[l] /= b
         IN  <<SubSeq(t, 1, i - 1)>> \o split(SubSeq(t, i + 1, Len(t)), b)
    ELSE <<t>>

\* str::splitn(2, '='): the text before the first = and, if there is one, the
\* text after it.
splitn2(t) ==
    IF \E i \in 1..Len(t) : t[i] = "="
    THEN LET i == CHOOSE j \in 1..Len(t) : t[j] = "=" /\ \A l \in 1..(j - 1) : t[l] /= "="
         IN  <<SubSeq(t, 1, i - 1), SubSeq(t, i + 1, Len(t))>>
    ELSE <<t>>

\* The directive set is a map from names to optional arguments, both texts;
\* the name must-revalidate is one byte of its own.
MUST_REVALIDATE == <<"must-revalidate">>

RECURSIVE ParseParts(_, _, _)
ParseParts(parts, cc, is_valid) ==
    IF parts = <<>> THEN [cc |-> cc, is_valid |-> is_valid]
    ELSE LET part == Head(parts)
             kv == splitn2(part)
             k == trim(kv[1])
             v == IF Len(kv) = 2 THEN Some(trim(kv[2])) ELSE None
         IN  IF trim(part) = <<>> \/ k = <<>> THEN ParseParts(Tail(parts), cc, is_valid)
             ELSE IF k \in DOMAIN cc
                  THEN ParseParts(Tail(parts), cc, is_valid /\ cc[k] = v)
                  ELSE ParseParts(Tail(parts),
                                  cc @@ (k :> IF IsSome(v)
                                              THEN Some(trim_matches(Unwrap(v), "\""))
                                              ELSE None),
                                  is_valid)

\* parse_cache_control on the text of one header value.
parse_cache_control_text(h) ==
    LET r == ParseParts(split(h, ","), <<>>, TRUE)
    IN  IF ~r.is_valid THEN Insert(r.cc, MUST_REVALIDATE, None) ELSE r.cc

\* needs_quote that never asks for quotes.
needs_quote_never(v) == FALSE

needs_quote_text(v) == v = <<>> \/ \E i \in 1..Len(v) : ~is_ascii_alphanumeric(v[i])

\* format_cache_control as text; the HashMap is written out in one fixed
\* order.
RECURSIVE FormatText(_, _)
FormatText(cc, names) ==
    IF names = {} THEN <<>>
    ELSE LET k == CHOOSE n \in names : TRUE
             v == cc[k]
             quote == IF IsSome(v) /\ needs_quote_text(Unwrap(v)) THEN <<"\"">> ELSE <<>>
             rest == FormatText(cc, names \ {k})
         IN  (IF rest /= <<>> THEN rest \o <<",", " ">> ELSE <<>>)
             \o k
             \o (IF IsSome(v) THEN <<"=">> \o quote \o Unwrap(v) \o quote ELSE <<>>)

format_cache_control_text(cc) == FormatText(cc, DOMAIN cc)

\* ------------------------------------------------------------------ CachePolicy

\* A directive's argument: cc.get(name).and_then(|v| v.as_ref())
Arg(cc, name) == IF name \in DOMAIN cc THEN cc[name] ELSE None

\* ... .and_then(|p| p.parse().ok())
ArgU64(cc, name) == IF IsSome(Arg(cc, name)) THEN ParseU64(Unwrap(Arg(cc, name))) ELSE None

\* The purge without its last removal.
CARGO_CULT_REMOVED_BUT_MUST_REVALIDATE == {"pre-check", "post-check", "no-cache", "no-store"}

CARGO_CULT_REMOVED == {"pre-check", "post-check", "no-cache", "no-store", "must-revalidate"}

from_details(uri, method, status, req, res, response_time, opts) ==
    LET parsed == parse_cache_control(res, "cache-control")
        req_cc == parse_cache_control(req, "cache-control")
        purge  == /\ opts.ignore_cargo_cult
                  /\ "pre-check" \in DOMAIN parsed
                  /\ "post-check" \in DOMAIN parsed
        purged == IF purge THEN RemoveAll(parsed, CARGO_CULT_REMOVED) ELSE parsed
        res1   == IF purge
                  THEN RemoveAll(Insert(res, "cache-control", format_cache_control(purged)),
                                 {"expires", "pragma"})
                  ELSE res
        pragma == Get(res1, "pragma")
        res_cc == IF /\ ~ContainsKey(res1, "cache-control")
                     /\ IsSome(pragma)
                     /\ ContainsNoCache(Unwrap(pragma))
                  THEN Insert(purged, "no-cache", None)
                  ELSE purged
    IN  [req |-> req, res |-> res1, uri |-> uri, status |-> status, method |-> method,
         opts |-> opts, res_cc |-> res_cc, req_cc |-> req_cc,
         response_time |-> response_time]

\* CachePolicy::new_options on a request [uri, method, headers] and a response
\* [status, headers].
new_options(req, res, response_time, opts) ==
    from_details(req.uri, req.method, res.status, req.headers, res.headers,
                 response_time, opts)

has_explicit_expiration(p) ==
    \/ (p.opts.privacy = "Shared" /\ "s-maxage" \in DOMAIN p.res_cc)
    \/ "max-age" \in DOMAIN p.res_cc
    \/ ContainsKey(p.res, "expires")

allows_storing_authenticated(p) ==
    \/ "must-revalidate" \in DOMAIN p.res_cc
    \/ "public" \in DOMAIN p.res_cc
    \/ "s-maxage" \in DOMAIN p.res_cc

\* is_storable with the shared-cache test of s-maxage left out of its last
\* condition.
is_storable_any_s_maxage(p) ==
    /\ "no-store" \notin DOMAIN p.req_cc
    /\ \/ p.method = "GET"
       \/ p.method = "HEAD"
       \/ (p.method = "POST" /\ has_explicit_expiration(p))
    /\ p.status \in UNDERSTOOD_STATUSES
    /\ "no-store" \notin DOMAIN p.res_cc
    /\ (p.opts.privacy = "Private" \/ "private" \notin DOMAIN p.res_cc)
    /\ \/ p.opts.privacy = "Private"
       \/ ~ContainsKey(p.req, "authorization")
       \/ allows_storing_authenticated(p)
    /\ \/ ContainsKey(p.res, "expires")
       \/ "max-age" \in DOMAIN p.res_cc
       \/ "s-maxage" \in DOMAIN p.res_cc
       \/ "public" \in DOMAIN p.res_cc
       \/ p.status \in STATUS_CODE_CACHEABLE_BY_DEFAULT

is_storable(p) ==
    /\ "no-store" \notin DOMAIN p.req_cc
    /\ \/ p.method = "GET"
       \/ p.method = "HEAD"
       \/ (p.method = "POST" /\ has_explicit_expiration(p))
    /\ p.status \in UNDERSTOOD_STATUSES
    /\ "no-store" \notin DOMAIN p.res_cc
    /\ (p.opts.privacy = "Private" \/ "private" \notin DOMAIN p.res_cc)
    /\ \/ p.opts.privacy = "Private"
       \/ ~ContainsKey(p.req, "authorization")
       \/ allows_storing_authenticated(p)
    /\ \/ ContainsKey(p.res, "expires")
       \/ "max-age" \in DOMAIN p.res_cc
       \/ (p.opts.privacy = "Shared" /\ "s-maxage" \in DOMAIN p.res_cc)
       \/ "public" \in DOMAIN p.res_cc
       \/ p.status \in STATUS_CODE_CACHEABLE_BY_DEFAULT

\* raw_server_date without the Date header.
raw_server_date_of_arrival(p) == p.response_time

raw_server_date(p) ==
    LET date == IF ContainsKey(p.res, "date") THEN parse_http_date(p.res["date"]) ELSE None
    IN  IF IsSome(date) THEN Unwrap(date) ELSE p.response_time

age_header_value(p) ==
    LET v == IF ContainsKey(p.res, "age") THEN ParseU64(p.res["age"]) ELSE None
    IN  IF IsSome(v) THEN Unwrap(v) ELSE 0

\* age with the resident time taken as a signed difference.
age_unclamped(p, now) == age_header_value(p) + (now - p.response_time)

\* now.duration_since(response_time) is an Err when now is before response_time.
age(p, now) ==
    IF now >= p.response_time
    THEN age_header_value(p) + (now - p.response_time)
    ELSE age_header_value(p)

\* Duration::from_secs(x.parse().unwrap_or(0))
SecsOrZero(s) == IF IsSome(ParseU64(s)) THEN Unwrap(ParseU64(s)) ELSE 0

\* max_age() past its first return: the lifetime of a storable response
\* without no-cache.
freshness_lifetime(p) ==
    LET default_min_ttl == IF "immutable" \in DOMAIN p.res_cc
                           THEN p.opts.immutable_min_time_to_live ELSE 0
        server_date == raw_server_date(p)
        expires == parse_http_date(p.res["expires"])
        last_modified == IF ContainsKey(p.res, "last-modified")
                         THEN parse_http_date(p.res["last-modified"]) ELSE None
    IN  IF /\ p.opts.privacy = "Shared"
           /\ ContainsKey(p.res, "set-cookie")
           /\ "public" \notin DOMAIN p.res_cc
           /\ "immutable" \notin DOMAIN p.res_cc THEN 0
        ELSE IF Get(p.res, "vary") = Some(<<"*">>) THEN 0
        ELSE IF p.opts.privacy = "Shared" /\ "proxy-revalidate" \in DOMAIN p.res_cc THEN 0
        ELSE IF p.opts.privacy = "Shared" /\ IsSome(Arg(p.res_cc, "s-maxage"))
             THEN SecsOrZero(Unwrap(Arg(p.res_cc, "s-maxage")))
        ELSE IF IsSome(Arg(p.res_cc, "max-age"))
             THEN SecsOrZero(Unwrap(Arg(p.res_cc, "max-age")))
        ELSE IF ContainsKey(p.res, "expires")
             THEN IF ~IsSome(expires) THEN 0
                  ELSE Max(default_min_ttl,
                           IF Unwrap(expires) >= server_date
                           THEN Unwrap(expires) - server_date ELSE 0)
        ELSE IF IsSome(last_modified) /\ server_date >= Unwrap(last_modified)
             THEN Max(default_min_ttl,
                      ((server_date - Unwrap(last_modified)) * p.opts.cache_heuristic.num)
                          \div p.opts.cache_heuristic.den)
        ELSE default_min_ttl

\* max_age without the test of is_storable.
max_age_unless_no_cache(p) ==
    IF "no-cache" \in DOMAIN p.res_cc THEN 0 ELSE freshness_lifetime(p)

max_age(p) ==
    IF ~is_storable(p) \/ "no-cache" \in DOMAIN p.res_cc THEN 0
    ELSE freshness_lifetime(p)

\* max_age().checked_sub(age(now)).unwrap_or_default()
time_to_live(p, now) ==
    IF max_age(p) >= age(p, now) THEN max_age(p) - age(p, now) ELSE 0

\* is_stale with a strict comparison.
is_stale_strict(p, now) == max_age(p) < age(p, now)

is_stale(p, now) == max_age(p) <= age(p, now)

\* allows_stale with must-revalidate ignored.
allows_stale_despite_must_revalidate(p, req_cc, now) ==
    /\ "max-stale" \in DOMAIN req_cc
    /\ (IsSome(ArgU64(req_cc, "max-stale")) =>
           Unwrap(ArgU64(req_cc, "max-stale")) > age(p, now) - max_age(p))

\* Whether a stale response may be served to a request with the directives
\* req_cc.
allows_stale(p, req_cc, now) ==
    LET has_max_stale == "max-stale" \in DOMAIN req_cc
        max_stale == ArgU64(req_cc, "max-stale")
    IN  /\ "must-revalidate" \notin DOMAIN p.res_cc
        /\ has_max_stale
        /\ (IsSome(max_stale) => Unwrap(max_stale) > age(p, now) - max_age(p))

\* satisfies_without_revalidation without the test of the Pragma header.
satisfies_without_revalidation_ignoring_pragma(p, req_headers, now) ==
    LET req_cc == parse_cache_control(req_headers, "cache-control")
        req_max_age == ArgU64(req_cc, "max-age")
        min_fresh == ArgU64(req_cc, "min-fresh")
    IN  IF "no-cache" \in DOMAIN req_cc THEN FALSE
        ELSE IF IsSome(req_max_age) /\ age(p, now) > Unwrap(req_max_age) THEN FALSE
        ELSE IF IsSome(min_fresh) /\ time_to_live(p, now) < Unwrap(min_fresh) THEN FALSE
        ELSE IF is_stale(p, now) /\ ~allows_stale(p, req_cc, now) THEN FALSE
        ELSE TRUE

satisfies_without_revalidation(p, req_headers, now) ==
    LET req_cc == parse_cache_control(req_headers, "cache-control")
        pragma == Get(req_headers, "pragma")
        req_max_age == ArgU64(req_cc, "max-age")
        min_fresh == ArgU64(req_cc, "min-fresh")
    IN  IF "no-cache" \in DOMAIN req_cc
           \/ (IsSome(pragma) /\ ContainsNoCache(Unwrap(pragma))) THEN FALSE
        ELSE IF IsSome(req_max_age) /\ age(p, now) > Unwrap(req_max_age) THEN FALSE
        ELSE IF IsSome(min_fresh) /\ time_to_live(p, now) < Unwrap(min_fresh) THEN FALSE
        ELSE IF is_stale(p, now) /\ ~allows_stale(p, req_cc, now) THEN FALSE
        ELSE TRUE

vary_matches(p, req) ==
    \A i \in 1..Len(get_all_comma(p.res, "vary")) :
        LET name == get_all_comma(p.res, "vary")[i]
        IN  /\ name /= "*"
            /\ Get(req.headers, name) = Get(p.req, name)

\* request_matches with the methods not compared.
request_matches_any_method(p, req) ==
    LET matches == /\ req.uri = p.uri
                   /\ Get(p.req, "host") = Get(req.headers, "host")
                   /\ vary_matches(p, req)
    IN  <<matches, matches \/ req.method = "HEAD">>

\* returns: matches including method, matches allowing head
request_matches(p, req) ==
    LET matches == /\ req.uri = p.uri
                   /\ Get(p.req, "host") = Get(req.headers, "host")
                   /\ vary_matches(p, req)
        exact_match == matches /\ p.method = req.method
    IN  <<exact_match, exact_match \/ req.method = "HEAD">>

\* Warning values of the model whose trimmed text starts with '1'.
StartsWith1 == {"199 - misc", "1000 - odd"}

WARNING_113 == "113 - rfc7234 5.5.4"

RECURSIVE DropStartingWith1(_)
DropStartingWith1(warnings) ==
    IF warnings = <<>> THEN <<>>
    ELSE IF Head(warnings) \in StartsWith1 THEN DropStartingWith1(Tail(warnings))
    ELSE <<Head(warnings)>> \o DropStartingWith1(Tail(warnings))

\* copy_without_hop_by_hop_headers that copies every header, the hop-by-hop
\* ones included.
copy_with_hop_by_hop_headers(in_headers) ==
    LET headers == RemoveAll(in_headers, Range(get_all_comma(in_headers, "connection")))
        new_warnings == DropStartingWith1(get_all_comma(in_headers, "warning"))
    IN  IF new_warnings = <<>> THEN Remove(headers, "warning")
        ELSE Insert(headers, "warning", new_warnings)

copy_without_hop_by_hop_headers(in_headers) ==
    LET copied == RemoveAll(in_headers, HOP_BY_HOP_HEADERS)
        headers == RemoveAll(copied, Range(get_all_comma(in_headers, "connection")))
        new_warnings == DropStartingWith1(get_all_comma(in_headers, "warning"))
    IN  IF new_warnings = <<>> THEN Remove(headers, "warning")
        ELSE Insert(headers, "warning", new_warnings)

DAY == 3600 * 24

cached_response(p, now) ==
    LET headers == copy_without_hop_by_hop_headers(p.res)
        warned == IF age(p, now) > DAY /\ ~has_explicit_expiration(p) /\ max_age(p) > DAY
                  THEN Insert(headers, "warning",
                              Append(get_all_comma(headers, "warning"), WARNING_113))
                  ELSE headers
        aged == Insert(warned, "age", ToString(age(p, now)))
    IN  [status |-> p.status, headers |-> Insert(aged, "date", fmt_http_date(now))]

request_from_headers(p, headers) ==
    [method |-> p.method, uri |-> p.uri, headers |-> headers]

\* The entity tags that do not start with W/.
RECURSIVE StrongOnly(_)
StrongOnly(etags) ==
    IF etags = <<>> THEN <<>>
    ELSE IF Head(etags).weak THEN StrongOnly(Tail(etags))
    ELSE <<Head(etags)>> \o StrongOnly(Tail(etags))

\* forbids_weak_validators that looks at the stored method alone.
forbids_weak_validators_by_method(p, headers) == p.method /= "GET"

\* forbids_weak_validators that forbids them in every request.
forbids_weak_validators_always(p, headers) == TRUE

forbids_weak_validators(p, headers) ==
    \/ p.method /= "GET"
    \/ ContainsKey(headers, "accept-ranges")
    \/ ContainsKey(headers, "if-match")
    \/ ContainsKey(headers, "if-unmodified-since")

revalidation_request(p, incoming_req) ==
    LET copied == Remove(copy_without_hop_by_hop_headers(incoming_req.headers), "if-range")
        with_etag == IF ContainsKey(p.res, "etag")
                     THEN Insert(copied, "if-none-match",
                                 Append(get_all_comma(copied, "if-none-match"), p.res["etag"]))
                     ELSE copied
        etags == StrongOnly(get_all_comma(with_etag, "if-none-match"))
        strong == IF etags = <<>>
                  THEN RemoveAll(with_etag, {"if-modified-since", "if-none-match"})
                  ELSE Insert(Remove(with_etag, "if-modified-since"), "if-none-match", etags)
    IN  IF ~is_storable(p)
        THEN request_from_headers(p, RemoveAll(copied, {"if-none-match", "if-modified-since"}))
        ELSE IF forbids_weak_validators(p, with_etag) THEN request_from_headers(p, strong)
        ELSE IF ~ContainsKey(with_etag, "if-modified-since")
                /\ ContainsKey(p.res, "last-modified")
             THEN request_from_headers(p,
                      Insert(with_etag, "if-modified-since", p.res["last-modified"]))
        ELSE request_from_headers(p, with_etag)

before_request(p, req, now) ==
    LET m == request_matches(p, req)
        matches == m[1]
        may_revalidate == m[2]
    IN  IF matches /\ satisfies_without_revalidation(p, req.headers, now)
        THEN [kind |-> "Fresh", parts |-> cached_response(p, now)]
        ELSE IF may_revalidate
             THEN [kind |-> "Stale", request |-> revalidation_request(p, req),
                   matches |-> matches]
        ELSE [kind |-> "Stale", request |-> request_from_headers(p, req.headers),
              matches |-> matches]

\* e.trim_start_matches("W/")
StripWeak(e) == [weak |-> FALSE, tag |-> e.tag]

\* validator_matches with the stored entity tag compared as it is, its W/ kept.
validator_matches_unstripped(p, response) ==
    LET old_etag == Get(p.res, "etag")
        old_last_modified == Get(response.headers, "last-modified")
        new_etag == Get(response.headers, "etag")
        new_last_modified == Get(response.headers, "last-modified")
    IN  IF response.status /= NOT_MODIFIED THEN FALSE
        ELSE IF IsSome(new_etag) /\ ~Unwrap(new_etag).weak
             THEN old_etag = new_etag
        ELSE IF IsSome(old_etag) /\ IsSome(new_etag)
             THEN StripWeak(Unwrap(old_etag)) = StripWeak(Unwrap(new_etag))
        ELSE IF IsSome(old_last_modified) THEN old_last_modified = new_last_modified
        ELSE /\ ~IsSome(old_etag)
             /\ ~IsSome(new_etag)
             /\ ~IsSome(old_last_modified)
             /\ ~IsSome(new_last_modified)

\* Whether after_response takes the reply as validating the stored response.
validator_matches(p, response) ==
    LET old_etag == Get(p.res, "etag")
        old_last_modified == Get(response.headers, "last-modified")
        new_etag == Get(response.headers, "etag")
        new_last_modified == Get(response.headers, "last-modified")
    IN  IF response.status /= NOT_MODIFIED THEN FALSE
        ELSE IF IsSome(new_etag) /\ ~Unwrap(new_etag).weak
             THEN IsSome(old_etag) /\ Some(StripWeak(Unwrap(old_etag))) = new_etag
        ELSE IF IsSome(old_etag) /\ IsSome(new_etag)
             THEN StripWeak(Unwrap(old_etag)) = StripWeak(Unwrap(new_etag))
        ELSE IF IsSome(old_last_modified) THEN old_last_modified = new_last_modified
        ELSE /\ ~IsSome(old_etag)
             /\ ~IsSome(new_etag)
             /\ ~IsSome(old_last_modified)
             /\ ~IsSome(new_last_modified)

\* The stored headers, each replaced by the reply's value for the same name
\* unless the name is excluded from the update.
\* merged_headers that keeps only the stored headers the reply repeats.
merged_headers_of_reply_only(p, response) ==
    [header \in (DOMAIN p.res) \cap (DOMAIN response.headers) |->
        IF header \notin EXCLUDED_FROM_REVALIDATION_UPDATE
        THEN response.headers[header]
        ELSE p.res[header]]

\* merged_headers that also takes the headers only the reply has.
merged_headers_and_reply_only(p, response) ==
    [header \in (DOMAIN p.res) \cup (DOMAIN response.headers) |->
        IF header \notin DOMAIN p.res THEN response.headers[header]
        ELSE IF ContainsKey(response.headers, header)
                /\ header \notin EXCLUDED_FROM_REVALIDATION_UPDATE
        THEN response.headers[header]
        ELSE p.res[header]]

merged_headers(p, response) ==
    [header \in DOMAIN p.res |->
        IF ContainsKey(response.headers, header)
           /\ header \notin EXCLUDED_FROM_REVALIDATION_UPDATE
        THEN response.headers[header]
        ELSE p.res[header]]

after_response(p, request, response, response_time) ==
    LET matches == validator_matches(p, response)
        new_policy == from_details(request.uri, request.method,
                                   IF matches THEN p.status ELSE response.status,
                                   request.headers,
                                   IF matches THEN merged_headers(p, response)
                                   ELSE response.headers,
                                   response_time, p.opts)
    IN  [kind |-> IF matches /\ response.status = NOT_MODIFIED
                  THEN "NotModified" ELSE "Modified",
         policy |-> new_policy,
         parts |-> cached_response(new_policy, response_time)]

\* ------------------------------------------------------------------ inputs

Times == 0..MaxTime

\* The instants at which a reply to a revalidation arrives.
ResponseTimes == {0, MaxTime}

Secs == 0..MaxSecs

\* A directive without and with an argument.
D(k) == [k |-> k, v |-> None]

DV(k, text) == [k |-> k, v |-> Some([q |-> FALSE, s |-> text])]

\* A header map of one optional header.
Hdr(name, opt) == IF IsSome(opt) THEN (name :> Unwrap(opt)) ELSE NoHeaders

\* A comma-split header is absent when it would have no item.
ListHdr(name, items) == IF items = <<>> THEN NoHeaders ELSE (name :> items)

Opt(values) == {None} \cup {Some(v) : v \in values}

\* CacheOptions::default(), with the heuristic fraction 0.1 as num/den.
DefaultOptions ==
    [privacy |-> "Shared", cache_heuristic |-> [num |-> 1, den |-> 10],
     immutable_min_time_to_live |-> DAY, ignore_cargo_cult |-> FALSE]

PrivateOptions == [DefaultOptions EXCEPT !.privacy = "Private"]

Strong(tag) == [weak |-> FALSE, tag |-> tag]

Weak(tag) == [weak |-> TRUE, tag |-> tag]

\* The requests of the model: [uri, method, headers].
Request(uri, method, headers) == [uri |-> uri, method |-> method, headers |-> headers]

Response(status, headers) == [status |-> status, headers |-> headers]

BaseRequest == Request("/", "GET", "host" :> "h")

\* -- stored exchanges that differ in what decides freshness
FreshnessControls ==
    {<<>>, <<D("no-store")>>}
    \cup {<<DV("max-age", ToString(n))>> : n \in Secs}
    \cup {<<DV("max-age", ToString(n)), D("must-revalidate")>> : n \in Secs}

FreshnessPolicies ==
    {new_options(BaseRequest,
                 Response(status, ListHdr("cache-control", cc) @@ Hdr("age", a)),
                 t, DefaultOptions) :
        status \in {200, 500}, cc \in FreshnessControls, a \in Opt({"1"}), t \in {0, 1}}

\* -- stored exchanges that differ in what decides the match
MatchingPolicies ==
    {new_options(Request("/", method, Hdr("host", host) @@ Hdr("accept", accept)),
                 Response(200, ("cache-control" :> <<DV("max-age", ToString(MaxSecs))>>)
                               @@ ListHdr("vary", vary)),
                 0, DefaultOptions) :
        method \in {"GET", "HEAD", "POST"}, host \in Opt({"h"}), accept \in Opt({"a"}),
        vary \in {<<>>, <<"accept">>, <<"accept", "*">>}}

\* -- stored exchanges that differ in their validators
ValidatorPolicies ==
    {new_options(BaseRequest,
                 Response(200, ("cache-control" :> <<DV("max-age", "1")>>)
                               @@ Hdr("etag", etag) @@ Hdr("x-foo", foo)
                               @@ Hdr("content-length", len)),
                 0, DefaultOptions) :
        etag \in Opt({Strong("v1"), Weak("v1")}), foo \in Opt({"old"}),
        len \in Opt({"10"})}

\* -- stored exchanges that carry a Last-Modified, with and without an ETag
LastModifiedPolicies ==
    {new_options(BaseRequest,
                 Response(200, ("cache-control" :> <<DV("max-age", "1")>>)
                               @@ ("last-modified" :> fmt_http_date(0))
                               @@ Hdr("etag", etag)),
                 0, DefaultOptions) :
        etag \in Opt({Strong("v1")})}

\* -- stored exchanges whose response carries headers the projection removes
\* or rewrites: each hop-by-hop header alone, and TE and Date with a header
\* that Connection may name and a Warning
ProjectedPolicies ==
    {new_options(BaseRequest,
                 Response(200, ("cache-control" :> <<DV("max-age", ToString(MaxSecs))>>)
                               @@ ("custom" :> "header") @@ (hop :> "x")),
                 0, DefaultOptions) :
        hop \in HOP_BY_HOP_HEADERS \ {"date", "connection"}}
    \cup
    {new_options(BaseRequest,
                 Response(200, ("cache-control" :> <<DV("max-age", ToString(MaxSecs))>>)
                               @@ ("custom" :> "header") @@ ("oompa" :> "lumpa")
                               @@ ("te" :> "deflate") @@ ("date" :> "now")
                               @@ ListHdr("connection", connection)
                               @@ ListHdr("warning", warning)),
                 0, DefaultOptions) :
        connection \in {<<>>, <<"close", "oompa", "header">>},
        warning \in {<<>>, <<"199 - misc">>, <<"199 - misc", "299 - kept">>}}

\* CacheOptions { ignore_cargo_cult: true, ..Default::default() }
CargoCultOptions == [DefaultOptions EXCEPT !.ignore_cargo_cult = TRUE]

\* -- a stored exchange under ignore_cargo_cult whose response has Expires and
\* Pragma
TolerantPolicies ==
    {new_options(BaseRequest,
                 Response(200, ("cache-control" :> <<DV("max-age", "1")>>)
                               @@ ("expires" :> fmt_http_date(MaxTime))
                               @@ ("pragma" :> "x")),
                 0, CargoCultOptions)}

\* -- stored exchanges that differ in what decides the revalidation request:
\* the method, storability, a weak or strong ETag and a Last-Modified
RevalidatedPolicies ==
    {new_options(Request("/", mc[1], "host" :> "h"),
                 Response(200, ("cache-control" :> <<mc[2]>>) @@ Hdr("etag", etag)
                               @@ Hdr("last-modified", lm)),
                 0, DefaultOptions) :
        mc \in {<<"GET", DV("max-age", "1")>>, <<"GET", D("no-store")>>,
                <<"POST", DV("max-age", "1")>>},
        etag \in Opt({Strong("v1"), Weak("v1")}), lm \in Opt({fmt_http_date(0)})}

\* -- stored exchanges whose Connection header names a header the projection
\* writes
RenamedPolicies ==
    {new_options(BaseRequest,
                 Response(200, ("cache-control" :> <<DV("max-age", ToString(MaxSecs))>>)
                               @@ ("age" :> "1") @@ ("date" :> fmt_http_date(0))
                               @@ ("warning" :> warning)
                               @@ ("connection" :> connection)),
                 0, DefaultOptions) :
        connection \in {<<"age">>, <<"date">>, <<"warning">>},
        warning \in {<<"199 - misc">>, <<"299 - kept">>}}

StoredPolicies ==
    FreshnessPolicies \cup MatchingPolicies \cup ValidatorPolicies
    \cup LastModifiedPolicies \cup ProjectedPolicies \cup TolerantPolicies
    \cup RevalidatedPolicies \cup RenamedPolicies

\* -- presented requests that differ in what decides the match
MatchingRequests ==
    {Request(uri, method,
             Hdr("host", host) @@ Hdr("accept", accept) @@ ListHdr("cache-control", cc)) :
        uri \in {"/", "/x"}, method \in {"GET", "HEAD", "POST"}, host \in Opt({"h"}),
        accept \in Opt({"a"}), cc \in {<<>>, <<D("max-stale")>>}}

\* -- presented requests that differ in their directives
RequestControls ==
    {<<D("no-cache")>>, <<D("no-transform")>>, <<D("max-stale")>>}
    \cup {<<DV(k, ToString(n))>> : k \in {"max-stale", "max-age", "min-fresh"}, n \in Secs}

DirectiveRequests ==
    {Request("/", "GET", ("host" :> "h") @@ ListHdr("cache-control", cc)) :
        cc \in RequestControls}
    \cup {Request("/", "GET", ("host" :> "h") @@ ("pragma" :> pragma)
                               @@ ListHdr("cache-control", cc)) :
            pragma \in {"no-cache", "x, no-cache", "x"}, cc \in {<<>>, <<D("max-stale")>>}}

\* -- presented requests that carry a hop-by-hop header, or a header that
\* their Connection header names
HopRequests ==
    {Request(uri, method, ("host" :> "h") @@ hop) :
        uri \in {"/", "/x"}, method \in {"GET", "HEAD"},
        hop \in {"te" :> "deflate", ("connection" :> <<"custom">>) @@ ("custom" :> "x")}}

\* -- presented requests that carry validators of their own, an If-Range, or a
\* header that forbids weak validators
ValidatingRequests ==
    {Request("/", method, ("host" :> "h") @@ ListHdr("if-none-match", inm)
                          @@ Hdr("if-modified-since", ims)) :
        method \in {"GET", "HEAD"},
        inm \in {<<>>, <<Weak("v0")>>, <<Weak("v0"), Strong("v2")>>},
        ims \in Opt({fmt_http_date(1)})}
    \cup
    {Request("/", method, ("host" :> "h") @@ ("if-none-match" :> inm)
                          @@ ("if-modified-since" :> fmt_http_date(1))
                          @@ (other :> "x")) :
        method \in {"GET", "HEAD"},
        inm \in {<<Weak("v0")>>, <<Weak("v0"), Strong("v2")>>},
        other \in {"if-range", "accept-ranges", "if-match", "if-unmodified-since"}}

PresentedRequests ==
    MatchingRequests \cup DirectiveRequests \cup HopRequests \cup ValidatingRequests

\* -- replies to a revalidation that differ in their ETag
ETagReplies ==
    {Response(status, Hdr("etag", etag) @@ Hdr("x-foo", foo) @@ Hdr("content-length", len)) :
        status \in {NOT_MODIFIED, 200}, etag \in Opt({Strong("v1"), Weak("v1"), Strong("v2")}),
        foo \in Opt({"new"}), len \in Opt({"20"})}

\* -- replies to a revalidation that carry a Last-Modified
LastModifiedReplies ==
    {Response(status, ("last-modified" :> fmt_http_date(lm)) @@ Hdr("etag", etag)) :
        status \in {NOT_MODIFIED, 200}, lm \in {0, 1}, etag \in Opt({Strong("v1")})}

\* -- 304 replies that bring a Connection or a Cache-Control of their own
RewritingReplies ==
    {Response(NOT_MODIFIED, "connection" :> <<"custom">>),
     Response(NOT_MODIFIED, "cache-control" :> <<DV("pre-check", "0"), DV("post-check", "0"),
                                                 DV("max-age", "2")>>)}

\* -- 304 replies that carry an Age, with and without the stored ETag
AgedReplies ==
    {Response(NOT_MODIFIED, ("age" :> "2") @@ Hdr("etag", etag)) :
        etag \in Opt({Strong("v1")})}

Replies == ETagReplies \cup LastModifiedReplies \cup RewritingReplies \cup AgedReplies

\* -- stored exchanges that differ in what decides storability
StorabilityDirectives ==
    <<D("no-store"), D("private"), D("public"), D("must-revalidate"),
      DV("s-maxage", "1"), DV("max-age", "1")>>

StorabilityPolicies ==
    {new_options(Request("/", method, ListHdr("cache-control", req_cc)
                                      @@ Hdr("authorization", auth)),
                 Response(status,
                          ListHdr("cache-control", SelectSeqBy(StorabilityDirectives, cc))
                          @@ Hdr("expires", expires)),
                 0, opts) :
        method \in {"GET", "HEAD", "POST", "PUT"}, req_cc \in {<<>>, <<D("no-store")>>},
        auth \in Opt({"test"}), status \in {200, 206, 302, 500},
        cc \in SUBSET Range(StorabilityDirectives),
        expires \in Opt({fmt_http_date(MaxTime)}), opts \in {DefaultOptions, PrivateOptions}}

\* -- stored exchanges that differ in what decides the age and the lifetime
AgePolicies ==
    {new_options(BaseRequest,
                 Response(status, ListHdr("cache-control", cc) @@ Hdr("age", a)
                                  @@ Hdr("expires", expires)),
                 t, DefaultOptions) :
        status \in {200, 500},
        cc \in {<<>>, <<D("immutable")>>, <<DV("max-age", "abc")>>}
               \cup {<<DV("max-age", ToString(n))>> : n \in Secs},
        a \in Opt({"bogus"} \cup {ToString(n) : n \in Secs}),
        expires \in Opt({"0", fmt_http_date(MaxTime)}),
        t \in Times}

QueriedPolicies == StorabilityPolicies \cup AgePolicies

\* -- responses with and without the directives that the cargo-cult purge reads
\* and removes
CargoCultDirectives ==
    <<DV("pre-check", "0"), DV("post-check", "0"), D("no-cache"), D("no-store"),
      D("must-revalidate"), DV("max-age", ToString(MaxSecs)), D("custom"), DV("foo", "bar")>>

CargoCultResponses ==
    {Response(200, ListHdr("cache-control", SelectSeqBy(CargoCultDirectives, cc))
                   @@ Hdr("pragma", pragma) @@ Hdr("expires", expires)) :
        cc \in SUBSET Range(CargoCultDirectives), pragma \in Opt({"no-cache"}),
        expires \in Opt({"yesterday!"})}

\* -- responses that differ in what the first rules of max_age read
LifetimeDirectives ==
    <<D("public"), D("immutable"), D("no-cache"), D("proxy-revalidate"),
      DV("s-maxage", "1"), DV("max-age", "2")>>

EarlyRuleResponses ==
    {Response(status, ListHdr("cache-control", SelectSeqBy(LifetimeDirectives, cc))
                      @@ Hdr("set-cookie", cookie) @@ ListHdr("vary", vary)) :
        status \in {200, 302}, cc \in SUBSET Range(LifetimeDirectives),
        cookie \in Opt({"a=b"}), vary \in {<<>>, <<"*">>}}

\* -- responses that differ in what the last rules of max_age read
LateRuleResponses ==
    {Response(200, ListHdr("cache-control", cc) @@ Hdr("expires", expires)
                   @@ Hdr("last-modified", modified) @@ Hdr("date", date)) :
        cc \in {SelectSeqBy(LifetimeDirectives, k) :
                   k \in SUBSET {D("immutable"), DV("s-maxage", "1"), DV("max-age", "2")}},
        expires \in Opt({"0", fmt_http_date(1), fmt_http_date(3)}),
        modified \in Opt({"bogus", fmt_http_date(0), fmt_http_date(3)}),
        date \in Opt({fmt_http_date(2)})}

\* -- responses whose max-age or s-maxage has no argument, or one that is not
\* a number
UnparsedLifetimeResponses ==
    {Response(200, ("cache-control" :> (<<[k |-> k, v |-> v]>> \o more))
                   @@ Hdr("expires", expires) @@ Hdr("last-modified", modified)) :
        k \in {"s-maxage", "max-age"}, v \in Opt({[q |-> FALSE, s |-> "abc"]}),
        more \in {<<>>, <<D("immutable")>>},
        expires \in Opt({fmt_http_date(3)}), modified \in Opt({fmt_http_date(0)})}
    \cup
    {Response(200, "cache-control" :> <<[k |-> "s-maxage", v |-> v], DV("max-age", "2")>>) :
        v \in Opt({[q |-> FALSE, s |-> "abc"]})}

\* -- responses whose Cache-Control writes one or two directives, with names
\* in either letter case or empty, and arguments absent, bare or quoted
ParsedItems ==
    {[k |-> k, v |-> v] : k \in {"max-age", "Max-Age"},
                          v \in Opt([q : BOOLEAN, s : {"1", "2"}])}
    \cup {D("no-store"), D("NO-STORE"), D("")}

ParsedResponses ==
    {Response(200, "cache-control" :> cc) :
        cc \in {<<i>> : i \in ParsedItems} \cup (ParsedItems \X ParsedItems)}

\* -- responses whose Cache-Control repeats max-age with another value, with
\* and without the directives the cargo-cult purge reads
ConflictingResponses ==
    {Response(200, "cache-control" :> (cult \o <<DV("max-age", "1"), DV("max-age", "2")>>)) :
        cult \in {<<>>, <<DV("pre-check", "0"), DV("post-check", "0")>>}}

\* Options with a heuristic fraction and an immutable minimum that tell in
\* lifetimes of a few seconds.
LifetimeOptions ==
    {[privacy |-> privacy, cache_heuristic |-> [num |-> 1, den |-> 2],
      immutable_min_time_to_live |-> 1, ignore_cargo_cult |-> FALSE] :
        privacy \in {"Shared", "Private"}}

\* The calls of new_options of the model: response, response time, options.
Constructions ==
    {[res |-> res, response_time |-> 0, opts |-> opts] :
        res \in CargoCultResponses, opts \in {DefaultOptions, CargoCultOptions}}
    \cup
    {[res |-> res, response_time |-> 1, opts |-> opts] :
        res \in EarlyRuleResponses \cup LateRuleResponses \cup UnparsedLifetimeResponses,
        opts \in LifetimeOptions}
    \cup
    {[res |-> res, response_time |-> 0, opts |-> DefaultOptions] : res \in ParsedResponses}
    \cup
    {[res |-> res, response_time |-> 0, opts |-> opts] :
        res \in ConflictingResponses,
        opts \in {DefaultOptions, PrivateOptions, CargoCultOptions}}

\* ------------------------------------------------------------------ the machine

\* policy is the CachePolicy the caller holds; last is the call the caller has
\* just made on it, with its arguments and what it returned, or Idle between
\* two calls.
Idle == [op |-> "idle"]

Init ==
    /\ policy \in StoredPolicies
    /\ last = Idle

\* is_storable(), age(now), time_to_live(now), is_stale(now) and the private
\* max_age() they rest on, asked at one instant.
Query(now) ==
    /\ last = Idle
    /\ last' = [op |-> "query", now |-> now,
                is_storable |-> is_storable(policy),
                max_age |-> max_age(policy),
                age |-> age(policy, now),
                time_to_live |-> time_to_live(policy, now),
                is_stale |-> is_stale(policy, now)]
    /\ UNCHANGED policy

BeforeRequest(req, now) ==
    /\ last = Idle
    /\ last' = [op |-> "before_request", req |-> req, now |-> now,
                result |-> before_request(policy, req, now)]
    /\ UNCHANGED policy

AfterResponse(req, res, now) ==
    /\ last = Idle
    /\ last' = [op |-> "after_response", req |-> req, res |-> res, now |-> now,
                result |-> after_response(policy, req, res, now)]
    /\ UNCHANGED policy

\* The caller replaces the policy it holds by the one after_response returned.
Replace ==
    /\ last.op = "after_response"
    /\ policy' = last.result.policy
    /\ last' = Idle

\* The caller has used the result and keeps the policy it holds.
Resume ==
    /\ last /= Idle
    /\ last' = Idle
    /\ UNCHANGED policy

Next ==
    \/ \E now \in Times : Query(now)
    \/ \E req \in PresentedRequests, now \in Times : BeforeRequest(req, now)
    \/ \E res \in Replies, now \in ResponseTimes : AfterResponse(BaseRequest, res, now)
    \/ Replace
    \/ Resume

Spec == Init /\ [][Next]_vars

\* The queries alone, over the policies that differ in storability, age and
\* lifetime.
InitQuery ==
    /\ policy \in QueriedPolicies
    /\ last = Idle

NextQuery ==
    \/ \E now \in Times : Query(now)
    \/ Resume

SpecQuery == InitQuery /\ [][NextQuery]_vars

\* What the caller holds before it has built a policy: the policy of an
\* exchange without headers.
Unbuilt == new_options(BaseRequest, Response(200, NoHeaders), 0, DefaultOptions)

\* The caller builds a policy from a request, a response, the time the
\* response arrived and the options, once, and holds it from then on.
New(req, res, response_time, opts) ==
    /\ last = Idle
    /\ policy = Unbuilt
    /\ policy' = new_options(req, res, response_time, opts)
    /\ last' = [op |-> "new", req |-> req, res |-> res, now |-> response_time,
                opts |-> opts]

\* The construction and the queries, over the responses that differ in what
\* the constructor parses and purges and in what max_age reads.
InitNew ==
    /\ policy = Unbuilt
    /\ last = Idle

NextNew ==
    \/ \E c \in Constructions : New(BaseRequest, c.res, c.response_time, c.opts)
    \/ \E now \in Times : Query(now)
    \/ Resume

SpecNew == InitNew /\ [][NextNew]_vars

\* The header texts of up to MaxText bytes.
Texts == UNION {[1..n -> Bytes] : n \in 0..MaxText}

\* parse_cache_control applied to the text of a Cache-Control header.
Parse(h) ==
    /\ last = Idle
    /\ last' = [op |-> "parse_cache_control", text |-> h,
                cc |-> parse_cache_control_text(h)]
    /\ UNCHANGED policy

\* format_cache_control applied to the directive set just parsed, as the
\* cargo-cult purge does, and its text parsed again.
Format ==
    /\ last.op = "parse_cache_control"
    /\ last' = [op |-> "format_cache_control", cc |-> last.cc,
                text |-> format_cache_control_text(last.cc),
                parsed |-> parse_cache_control_text(format_cache_control_text(last.cc))]
    /\ UNCHANGED policy

\* The parser and the formatter alone, over every text of up to MaxText bytes.
NextText ==
    \/ \E h \in Texts : Parse(h)
    \/ Format
    \/ Resume

SpecText == InitNew /\ [][NextText]_vars

\* ------------------------------------------------------------------ claims

\* The presented request r is for what the policy was stored for: the same
\* URI, the same Host (absent on both sides included), the same value or
\* absence of every header the stored Vary names, no * in Vary, and the same
\* method.
ExactMatch(p, r) ==
    /\ r.uri = p.uri
    /\ Get(r.headers, "host") = Get(p.req, "host")
    /\ "*" \notin Range(get_all_comma(p.res, "vary"))
    /\ \A name \in Range(get_all_comma(p.res, "vary")) :
           Get(r.headers, name) = Get(p.req, name)
    /\ r.method = p.method

Fresh == last.op = "before_request" /\ last.result.kind = "Fresh"

Stale == last.op = "before_request" /\ last.result.kind = "Stale"

HasDirective(h, name) ==
    \E i \in 1..Len(get_all_comma(h, "cache-control")) :
        get_all_comma(h, "cache-control")[i].k = name

\* The seven conditions of storability, on the stored request and response.
SevenConditions(p) ==
    LET shared == p.opts.privacy = "Shared"
    IN  /\ ~HasDirective(p.req, "no-store")
        /\ \/ p.method \in {"GET", "HEAD"}
           \/ /\ p.method = "POST"
              /\ \/ (shared /\ HasDirective(p.res, "s-maxage"))
                 \/ HasDirective(p.res, "max-age")
                 \/ "expires" \in DOMAIN p.res
        /\ p.status \in {200, 203, 204, 300, 301, 302, 303, 307, 308, 404, 405, 410, 414, 501}
        /\ ~HasDirective(p.res, "no-store")
        /\ (~shared \/ ~HasDirective(p.res, "private"))
        /\ \/ ~shared
           \/ "authorization" \notin DOMAIN p.req
           \/ HasDirective(p.res, "must-revalidate")
           \/ HasDirective(p.res, "public")
           \/ HasDirective(p.res, "s-maxage")
        /\ \/ "expires" \in DOMAIN p.res
           \/ HasDirective(p.res, "max-age")
           \/ (HasDirective(p.res, "s-maxage") /\ shared)
           \/ HasDirective(p.res, "public")
           \/ p.status \in {200, 203, 204, 206, 300, 301, 308, 404, 405, 410, 414, 501}

\* C2: is_storable() is true if and only if the seven conditions hold: the
\* request has no no-store; the method is GET or HEAD, or POST with explicit
\* expiration; the status is understood; the response has no no-store; the
\* cache is private or the response has no private; the cache is private or the
\* request has no Authorization or the response has must-revalidate, public or
\* s-maxage; the response has Expires, max-age, s-maxage (shared), public or a
\* status cacheable by default.
C2_StorableIffSevenConditions ==
    last.op = "query" => (last.is_storable <=> SevenConditions(policy))

\* A POST with Authorization, stored by a shared cache, found storable.
C2_Witness ==
    /\ last.op = "query"
    /\ last.is_storable
    /\ policy.method = "POST"
    /\ "authorization" \in DOMAIN policy.req
    /\ policy.opts.privacy = "Shared"

\* C3: a policy that is not storable has max_age() = 0, so at every instant its
\* time_to_live is 0 and it is stale.
C3_NotStorableNeverFresh ==
    (last.op = "query" /\ ~last.is_storable) =>
        /\ last.max_age = 0
        /\ last.time_to_live = 0
        /\ last.is_stale

\* A response that is not storable although it carries max-age=1, asked before
\* a second has passed.
C3_Witness ==
    /\ last.op = "query"
    /\ ~last.is_storable
    /\ Arg(policy.res_cc, "max-age") = Some("1")
    /\ last.age = 0

\* C4: time_to_live(t) = max(0, max_age() - age(t)), is_stale(t) holds exactly
\* when age(t) >= max_age(), and so exactly when time_to_live(t) = 0.
C4_TimeToLiveAndStale ==
    last.op = "query" =>
        /\ last.time_to_live = Max(0, last.max_age - last.age)
        /\ last.time_to_live >= 0
        /\ last.is_stale <=> (last.age >= last.max_age)
        /\ last.is_stale <=> (last.time_to_live = 0)

\* The subtraction saturates: the age is past a positive lifetime.
C4_Witness ==
    /\ last.op = "query"
    /\ last.max_age > 0
    /\ last.age > last.max_age
    /\ last.time_to_live = 0

\* The natural number the stored Age header holds, 0 when it is absent or holds
\* none.
StoredAge(p) ==
    IF "age" \in DOMAIN p.res /\ \E n \in 0..MaxParse : ToString(n) = p.res["age"]
    THEN CHOOSE n \in 0..MaxParse : ToString(n) = p.res["age"]
    ELSE 0

\* C5: age(t) = A + max(0, t - response_time), A the natural number of the
\* stored Age header (0 when absent or unparseable); so the age never
\* decreases as t grows, in whatever order it is asked.
C5_AgeIsHeaderPlusResidentTime ==
    /\ last.op = "query" =>
           last.age = StoredAge(policy) + Max(0, last.now - policy.response_time)
    /\ \A t1, t2 \in Times : t1 <= t2 => age(policy, t1) <= age(policy, t2)

\* Asked at an instant before response_time, with a stored Age of at least 1.
C5_Witness ==
    /\ last.op = "query"
    /\ last.now < policy.response_time
    /\ last.age > 0

\* The directives of the presented request, by name.
Asks(r, name) == HasDirective(r.headers, name)

\* The number a directive of the presented request carries, as an Option.
AsksFor(r, name) ==
    LET items == get_all_comma(r.headers, "cache-control")
        at == {i \in 1..Len(items) : items[i].k = name /\ IsSome(items[i].v)}
    IN  IF at = {} THEN None
        ELSE LET text == Unwrap(items[CHOOSE i \in at : TRUE].v).s
             IN  IF \E n \in 0..MaxParse : ToString(n) = text
                 THEN Some(CHOOSE n \in 0..MaxParse : ToString(n) = text)
                 ELSE None

\* The presented request forbids a cached answer: no-cache as a directive or
\* inside Pragma.
AsksNoCache(r) ==
    \/ Asks(r, "no-cache")
    \/ ("pragma" \in DOMAIN r.headers /\ ContainsNoCache(r.headers["pragma"]))

\* The bounds max-age and min-fresh of the presented request are met.
WithinRequestBounds(p, r, now) ==
    /\ IsSome(AsksFor(r, "max-age")) => age(p, now) <= Unwrap(AsksFor(r, "max-age"))
    /\ IsSome(AsksFor(r, "min-fresh")) =>
           time_to_live(p, now) >= Unwrap(AsksFor(r, "min-fresh"))

C7_FreshIffMaxStaleCoversStaleness ==
    ( /\ last.op = "before_request"
      /\ ExactMatch(policy, last.req)
      /\ ~AsksNoCache(last.req)
      /\ ~Asks(last.req, "max-age")
      /\ ~Asks(last.req, "min-fresh")
      /\ age(policy, last.now) >= max_age(policy)
      /\ ~HasDirective(policy.res, "must-revalidate") ) =>
        (Fresh <=>
            /\ Asks(last.req, "max-stale")
            /\ IsSome(AsksFor(last.req, "max-stale")) =>
                   Unwrap(AsksFor(last.req, "max-stale"))
                       >= age(policy, last.now) - max_age(policy))

\* C8: before_request returns Fresh only if the request has no no-cache
\* directive and no Pragma holding no-cache, its max-age=N (if any) has
\* age <= N, and its min-fresh=N (if any) has time_to_live >= N; a directive
\* such as no-transform does not prevent Fresh.
C8_FreshOnlyWithinRequestDirectives ==
    /\ Fresh =>
           /\ ~AsksNoCache(last.req)
           /\ WithinRequestBounds(policy, last.req, last.now)
    /\ ( /\ last.op = "before_request"
         /\ get_all_comma(last.req.headers, "cache-control") = <<D("no-transform")>>
         /\ "pragma" \notin DOMAIN last.req.headers
         /\ ExactMatch(policy, last.req)
         /\ age(policy, last.now) < max_age(policy) ) => Fresh

\* Fresh for a request with min-fresh=1: the response has a second to live.
C8_Witness ==
    /\ Fresh
    /\ AsksFor(last.req, "min-fresh") = Some(1)
    /\ time_to_live(policy, last.now) >= 1

NotTakenFromReply ==
    EXCLUDED_FROM_REVALIDATION_UPDATE \cup HOP_BY_HOP_HEADERS \cup {"age", "date", "warning"}

NotModified == last.op = "after_response" /\ last.result.kind = "NotModified"

\* Headers that the constructor of a policy under ignore_cargo_cult may
\* rewrite or remove.
PurgeRewrites(p) ==
    IF p.opts.ignore_cargo_cult THEN {"cache-control", "expires", "pragma"} ELSE {}

DecidedByETag ==
    LET old == Get(policy.res, "etag")
        new == Get(last.res.headers, "etag")
    IN  IsSome(new) /\ (~Unwrap(new).weak \/ IsSome(old))

\* C11: a 304 reply that its ETag does not decide is a match only if the stored
\* response has a Last-Modified equal to the reply's, or if neither response
\* has an ETag or a Last-Modified; a reply whose Last-Modified differs from
\* the stored one, or that has none while the stored response has one, gives
\* Modified.
C11_LastModifiedMatchOn304 ==
    (last.op = "after_response" /\ last.res.status = 304 /\ ~DecidedByETag) =>
        LET old_etag == Get(policy.res, "etag")
            new_etag == Get(last.res.headers, "etag")
            old_last_modified == Get(policy.res, "last-modified")
            new_last_modified == Get(last.res.headers, "last-modified")
        IN  NotModified =>
                \/ IsSome(old_last_modified) /\ old_last_modified = new_last_modified
                \/ /\ ~IsSome(old_etag) /\ ~IsSome(new_etag)
                   /\ ~IsSome(old_last_modified) /\ ~IsSome(new_last_modified)

\* The validators of a 304 reply r match those of the stored response: both
\* have an ETag and the tags are equal with W/ stripped; or the reply's ETag
\* decides nothing, and the stored Last-Modified equals the reply's; or
\* neither response has an ETag or a Last-Modified.
ValidatorsMatch(p, r) ==
    LET old_etag == Get(p.res, "etag")
        new_etag == Get(r.headers, "etag")
        old_last_modified == Get(p.res, "last-modified")
        new_last_modified == Get(r.headers, "last-modified")
    IN  IF IsSome(old_etag) /\ IsSome(new_etag)
        THEN Unwrap(old_etag).tag = Unwrap(new_etag).tag
        ELSE IF IsSome(new_etag) /\ ~Unwrap(new_etag).weak THEN FALSE
        ELSE IF IsSome(old_last_modified) THEN old_last_modified = new_last_modified
        ELSE /\ ~IsSome(old_etag) /\ ~IsSome(new_etag) /\ ~IsSome(new_last_modified)

\* C12: after_response returns NotModified only for a 304 reply whose
\* validators match the stored response's; for a reply of any other status it
\* returns Modified with the policy built from the new request and the reply's
\* own status and headers, under the options of the stored policy.
C12_NotModifiedOnlyOnMatching304 ==
    last.op = "after_response" =>
        /\ NotModified => (last.res.status = 304 /\ ValidatorsMatch(policy, last.res))
        /\ last.res.status /= 304 =>
               /\ last.result.kind = "Modified"
               /\ last.result.policy = new_options(last.req, last.res, last.now, policy.opts)
               /\ last.result.policy.status = last.res.status

\* C16: the request parts before_request returns with Stale have the URI and
\* the method of the presented request, also when matches is false.
C16_StaleRequestIsThePresentedOne ==
    (last.op = "before_request" /\ last.result.kind = "Stale") =>
        /\ last.result.request.uri = last.req.uri
        /\ last.result.request.method = last.req.method

\* The names a Connection header of the response headers h lists.
ConnectionTokens(h) == Range(get_all_comma(h, "connection"))

\* C13 as claimed: after a 304 reply that matched, the returned response parts
\* have every header name of the stored response.
C13_PartsHaveEveryStoredName ==
    NotModified => (DOMAIN policy.res) \subseteq (DOMAIN last.result.parts.headers)

\* C13, amended: after a 304 reply that matched, the returned policy's response
\* has every header name of the stored response, except Expires and Pragma
\* under ignore_cargo_cult, and the returned response parts have each of them
\* that is not a hop-by-hop header, not named by the Connection header of the
\* returned policy's response, and not Warning.
C13_PartsHaveEveryStoredNameKept ==
    NotModified =>
        LET merged == last.result.policy.res
            purged == PurgeRewrites(policy) \ {"cache-control"}
        IN  /\ (DOMAIN policy.res) \ purged \subseteq DOMAIN merged
            /\ (DOMAIN policy.res)
                   \ (purged \cup (HOP_BY_HOP_HEADERS \ {"date"}) \cup ConnectionTokens(merged)
                      \cup {"warning"})
               \subseteq DOMAIN last.result.parts.headers

\* A match on a stored response with TE, Connection and a header Connection
\* names: the parts keep Custom and Cache-Control and have lost the three.
C13_Witness ==
    /\ NotModified
    /\ {"te", "connection", "oompa", "custom", "cache-control"} \subseteq DOMAIN policy.res
    /\ {"custom", "cache-control"} \subseteq DOMAIN last.result.parts.headers
    /\ {"te", "connection", "oompa"} \cap DOMAIN last.result.parts.headers = {}

\* The response parts handed out by the last call, with the policy whose
\* response they project and the instant they are made for.
HandedOut ==
    \/ last.op = "before_request" /\ last.result.kind = "Fresh"
    \/ last.op = "after_response"

Projected == IF last.op = "after_response" THEN last.result.policy ELSE policy

\* C14 as claimed: response parts handed out at t have Age = age(t), Date = t,
\* no hop-by-hop header, and every other header of the stored response
\* unchanged.
C14_ProjectionPassesAllOthers ==
    HandedOut =>
        LET h == last.result.parts.headers
            stored == Projected.res
        IN  /\ Get(h, "age") = Some(ToString(age(Projected, last.now)))
            /\ Get(h, "date") = Some(fmt_http_date(last.now))
            /\ (HOP_BY_HOP_HEADERS \ {"date"}) \cap DOMAIN h = {}
            /\ \A n \in (DOMAIN stored) \ (HOP_BY_HOP_HEADERS \cup {"age"}) :
                   Get(h, n) = Some(stored[n])

\* C14, amended: as claimed, but the headers passed through unchanged are
\* those that are not hop-by-hop, not Age, not named by the stored Connection
\* header and not Warning.
C14_ProjectionPassesOthers ==
    HandedOut =>
        LET h == last.result.parts.headers
            stored == Projected.res
        IN  /\ Get(h, "age") = Some(ToString(age(Projected, last.now)))
            /\ Get(h, "date") = Some(fmt_http_date(last.now))
            /\ (HOP_BY_HOP_HEADERS \ {"date"}) \cap DOMAIN h = {}
            /\ \A n \in (DOMAIN stored)
                          \ (HOP_BY_HOP_HEADERS \cup ConnectionTokens(stored)
                             \cup {"age", "warning"}) :
                   Get(h, n) = Some(stored[n])

\* Fresh at an instant after the response time on a stored response with TE,
\* Date, Connection and a header Connection names.
C14_Witness ==
    /\ last.op = "before_request" /\ last.result.kind = "Fresh" /\ last.now > 0
    /\ {"te", "date", "connection", "oompa"} \subseteq DOMAIN policy.res
    /\ Get(last.result.parts.headers, "custom") = Some("header")
    /\ Get(last.result.parts.headers, "age") = Some(ToString(last.now))

\* Some name is written twice in the directives with different arguments,
\* quotes aside.
Conflicting(items) ==
    \E i, j \in 1..Len(items) :
        /\ i < j
        /\ items[i].k /= ""
        /\ items[i].k = items[j].k
        /\ Unquote(items[i].v) /= Unquote(items[j].v)

\* The names of the directives the response headers h write in Cache-Control.
Written(h) == {i.k : i \in Range(get_all_comma(h, "cache-control"))}

\* The directives the response headers h write in Cache-Control, as pairs of a
\* name and an unquoted argument, those named in removed left out.
WrittenBut(h, removed) ==
    {<<i.k, Unquote(i.v)>> : i \in {j \in Range(get_all_comma(h, "cache-control")) :
                                       j.k \notin removed}}

\* C15: a policy built under ignore_cargo_cult from a response whose
\* Cache-Control has pre-check and post-check, and no directive twice with
\* different arguments, has these two, no-cache, no-store
\* and must-revalidate removed from its directives and every other directive
\* kept, its stored Cache-Control rewritten to what is kept, Expires and Pragma
\* removed, and its lifetime taken from the max-age that is kept; built with
\* ignore_cargo_cult disabled, it keeps every directive and header as
\* written, is not storable when no-store is written, and hands out the
\* Cache-Control header unchanged.
C15_CargoCultPurge ==
    last.op = "new" =>
        LET written == last.res.headers
            five == {"pre-check", "post-check", "no-cache", "no-store", "must-revalidate"}
            kept == WrittenBut(written, five)
        IN  ({"pre-check", "post-check"} \subseteq Written(written)
                /\ ~Conflicting(get_all_comma(written, "cache-control"))) =>
            /\ last.opts.ignore_cargo_cult =>
                   /\ {<<k, policy.res_cc[k]>> : k \in DOMAIN policy.res_cc} = kept
                   /\ ContainsKey(policy.res, "cache-control")
                   /\ WrittenBut(policy.res, {}) = kept
                   /\ ~ContainsKey(policy.res, "expires")
                   /\ ~ContainsKey(policy.res, "pragma")
                   /\ RemoveAll(policy.res, {"cache-control"})
                          = RemoveAll(written, {"cache-control", "expires", "pragma"})
                   /\ "max-age" \in Written(written) =>
                          /\ is_storable(policy)
                          /\ max_age(policy) = MaxSecs
                          /\ time_to_live(policy, last.now) = MaxSecs
            /\ ~last.opts.ignore_cargo_cult =>
                   /\ policy.res = written
                   /\ WrittenBut(written, {}) \subseteq {<<k, policy.res_cc[k]>> : k \in DOMAIN policy.res_cc}
                   /\ "no-store" \in Written(written) => ~is_storable(policy)
                   /\ Get(cached_response(policy, last.now).headers, "cache-control")
                          = Get(written, "cache-control")

\* The response of the test pre_check_poison under ignore_cargo_cult: storable,
\* with the lifetime of its max-age.
C15_Witness ==
    /\ last.op = "new" /\ last.opts.ignore_cargo_cult
    /\ Written(last.res.headers)
           = {"pre-check", "post-check", "no-cache", "no-store", "max-age", "custom", "foo"}
    /\ ContainsKey(last.res.headers, "pragma")
    /\ DOMAIN policy.res_cc = {"max-age", "custom", "foo"}
    /\ time_to_live(policy, last.now) = MaxSecs

\* Every s-maxage and max-age among the directives cc has an argument.
HaveArguments(cc) == \A k \in {"s-maxage", "max-age"} \cap DOMAIN cc : IsSome(cc[k])

\* The lifetime that the first applicable of the ten rules gives to the policy
\* p, storable or not, whose s-maxage and max-age have arguments.
FirstApplicableRule(p, storable) ==
    LET cc == p.res_cc
        shared == p.opts.privacy = "Shared"
        min_ttl == IF "immutable" \in DOMAIN cc THEN p.opts.immutable_min_time_to_live ELSE 0
        date == IF ContainsKey(p.res, "date") THEN parse_http_date(p.res["date"]) ELSE None
        server_date == IF IsSome(date) THEN Unwrap(date) ELSE p.response_time
        expires == parse_http_date(p.res["expires"])
        modified == parse_http_date(p.res["last-modified"])
    IN  CASE ~storable \/ "no-cache" \in DOMAIN cc -> 0
          [] OTHER ->
        CASE shared /\ ContainsKey(p.res, "set-cookie")
                  /\ {"public", "immutable"} \cap DOMAIN cc = {} -> 0
          [] OTHER ->
        CASE Get(p.res, "vary") = Some(<<"*">>) -> 0
          [] OTHER ->
        CASE shared /\ "proxy-revalidate" \in DOMAIN cc -> 0
          [] OTHER ->
        CASE shared /\ "s-maxage" \in DOMAIN cc -> SecsOrZero(Unwrap(cc["s-maxage"]))
          [] OTHER ->
        CASE "max-age" \in DOMAIN cc -> SecsOrZero(Unwrap(cc["max-age"]))
          [] OTHER ->
        CASE ContainsKey(p.res, "expires") ->
                 IF ~IsSome(expires) THEN 0
                 ELSE Max(min_ttl, Max(Unwrap(expires) - server_date, 0))
          [] OTHER ->
        CASE ContainsKey(p.res, "last-modified") /\ IsSome(modified)
                  /\ Unwrap(modified) <= server_date ->
                 Max(min_ttl, ((server_date - Unwrap(modified)) * p.opts.cache_heuristic.num)
                                  \div p.opts.cache_heuristic.den)
          [] OTHER -> min_ttl

C18_UnparsedLifetimeIsZero ==
    last.op = "query" =>
        LET cc == policy.res_cc
            shared == policy.opts.privacy = "Shared"
            unparsed(k) == k \in DOMAIN cc /\ (IsSome(cc[k]) => ~IsSome(ParseU64(Unwrap(cc[k]))))
        IN  (IF shared /\ "s-maxage" \in DOMAIN cc THEN unparsed("s-maxage")
             ELSE unparsed("max-age"))
            => last.max_age = 0

\* A directive name in lower case.
Lowercase(k) ==
    CASE k = "Max-Age" -> "max-age"
      [] k = "NO-STORE" -> "no-store"
      [] OTHER -> k

\* The directives as a parser that lowercases names, ignores quotes around
\* arguments and skips empty tokens reads them.
RECURSIVE Normalised(_)
Normalised(items) ==
    IF items = <<>> THEN <<>>
    ELSE LET i == Head(items) IN
         IF i.k = "" THEN Normalised(Tail(items))
         ELSE <<[k |-> Lowercase(i.k),
                 v |-> IF IsSome(i.v) THEN Some([q |-> FALSE, s |-> Unwrap(i.v).s])
                       ELSE None]>>
              \o Normalised(Tail(items))

\* The policy of the same exchange with its response Cache-Control written
\* in lower case, without quotes and without empty tokens.
WrittenNormalised(p) ==
    from_details(p.uri, p.method, p.status, p.req,
                 IF ContainsKey(p.res, "cache-control")
                 THEN Insert(p.res, "cache-control", Normalised(p.res["cache-control"]))
                 ELSE p.res,
                 p.response_time, p.opts)

\* C19: is_storable and max_age answer for a response whose directives are
\* written in another letter case, with quoted arguments or between empty
\* tokens as they answer for the same directives in lower case, unquoted and
\* without the empty tokens.
C19_DirectivesReadInAnyCase ==
    (last.op = "query" /\ ~policy.opts.ignore_cargo_cult) =>
        /\ last.is_storable = is_storable(WrittenNormalised(policy))
        /\ last.max_age = max_age(WrittenNormalised(policy))

\* C20: the directives parsed from a Cache-Control that does not write
\* must-revalidate have must-revalidate iff some name is written twice with
\* different arguments, quotes aside.
C20_MustRevalidateIffConflict ==
    (last.op = "new" /\ ~last.opts.ignore_cargo_cult
        /\ "must-revalidate" \notin Written(last.res.headers)) =>
        ("must-revalidate" \in DOMAIN policy.res_cc
            <=> Conflicting(get_all_comma(last.res.headers, "cache-control")))

\* C21: a policy built, under any options, from a response whose
\* Cache-Control repeats a directive with conflicting values has
\* must-revalidate among its response directives, and so does not let a
\* max-stale of the request excuse staleness.
C21_ConflictForcesMustRevalidate ==
    (last.op = "new" /\ Conflicting(get_all_comma(last.res.headers, "cache-control"))) =>
        /\ "must-revalidate" \in DOMAIN policy.res_cc
        /\ \A now \in Times :
               is_stale(policy, now) =>
                   ~satisfies_without_revalidation(
                        policy, "cache-control" :> <<D("max-stale")>>, now)

MayRevalidate(p, req) ==
    /\ request_matches_any_method(p, req)[1]
    /\ (req.method = p.method \/ req.method = "HEAD")

\* The outgoing headers carry a validator of the stored response that the
\* presented request did not carry: the stored ETag as the last entry of
\* If-None-Match, or the stored Last-Modified as If-Modified-Since.
StoredValidatorAdded(p, req, out) ==
    \/ /\ ContainsKey(p.res, "etag")
       /\ ContainsKey(out, "if-none-match")
       /\ out["if-none-match"] /= get_all_comma(req.headers, "if-none-match")
       /\ out["if-none-match"][Len(out["if-none-match"])] = p.res["etag"]
    \/ /\ ContainsKey(p.res, "last-modified")
       /\ ~ContainsKey(req.headers, "if-modified-since")
       /\ Get(out, "if-modified-since") = Some(p.res["last-modified"])

\* C23: a Stale request carries a validator of the stored response only when
\* the presented request matches the stored one on URI, Host and the headers
\* Vary selects and its method is the stored one or HEAD; for any other
\* request, a HEAD for another URI included, no stored validator is added.
C23_ValidatorsOnlyOnMatch ==
    (last.op = "before_request" /\ last.result.kind = "Stale"
     /\ ~MayRevalidate(policy, last.req)) =>
        ~StoredValidatorAdded(policy, last.req, last.result.request.headers)

\* The headers without the hop-by-hop ones and without those the Connection
\* header names.
WithoutHopByHop(headers) ==
    RemoveAll(RemoveAll(headers, HOP_BY_HOP_HEADERS),
              Range(get_all_comma(headers, "connection")))

\* C24: every Stale request is free of hop-by-hop headers, and for a presented
\* request that is neither an exact nor a head-only match its headers are the
\* presented ones without the hop-by-hop headers and the headers Connection
\* names, nothing else changed.
C24_StaleStripsHopByHop ==
    (last.op = "before_request" /\ last.result.kind = "Stale") =>
        /\ DOMAIN last.result.request.headers \cap HOP_BY_HOP_HEADERS = {}
        /\ ~request_matches(policy, last.req)[2] =>
               last.result.request.headers = WithoutHopByHop(last.req.headers)

\* before_request has built the request it returns with revalidation_request.
Revalidating ==
    /\ last.op = "before_request"
    /\ last.result.kind = "Stale"
    /\ request_matches(policy, last.req)[2]

\* The stored method is not GET, or the outgoing headers hold Accept-Ranges,
\* If-Match or If-Unmodified-Since.
WeakForbidden(p, out) ==
    \/ p.method /= "GET"
    \/ {"accept-ranges", "if-match", "if-unmodified-since"} \cap DOMAIN out /= {}

\* The entity tags the revalidation request may name: those presented, then
\* the stored one.
Candidates(p, req) ==
    get_all_comma(req.headers, "if-none-match")
    \o (IF ContainsKey(p.res, "etag") THEN <<p.res["etag"]>> ELSE <<>>)

\* C25: a revalidation request of a storable policy that forbids weak
\* validators (stored method not GET, or Accept-Ranges, If-Match or
\* If-Unmodified-Since among the outgoing headers) has no If-Modified-Since,
\* and its If-None-Match holds the strong entity tags among those presented
\* and the stored one, no W/ entry, and is absent when none is strong, a weak
\* stored ETag included.
C25_WeakValidatorsForbidden ==
    (Revalidating /\ is_storable(policy)
     /\ WeakForbidden(policy, last.result.request.headers)) =>
        LET out == last.result.request.headers
            inm == get_all_comma(out, "if-none-match")
            candidates == Candidates(policy, last.req)
        IN  /\ ~ContainsKey(out, "if-modified-since")
            /\ \A i \in 1..Len(inm) : ~inm[i].weak
            /\ Range(inm) = {e \in Range(candidates) : ~e.weak}
            /\ ContainsKey(out, "if-none-match") <=> \E e \in Range(candidates) : ~e.weak

\* A weak stored ETag and a presented If-None-Match with a weak and a strong
\* entry, under a stored POST: the strong entry alone is sent.
C25_Witness ==
    /\ Revalidating /\ is_storable(policy)
    /\ WeakForbidden(policy, last.result.request.headers)
    /\ ContainsKey(policy.res, "etag") /\ policy.res["etag"].weak
    /\ ContainsKey(policy.res, "last-modified")
    /\ get_all_comma(last.req.headers, "if-none-match") = <<Weak("v0"), Strong("v2")>>
    /\ Get(last.result.request.headers, "if-none-match") = Some(<<Strong("v2")>>)

\* C26: a revalidation request never has If-Range; from a policy that is not
\* storable it has neither If-None-Match nor If-Modified-Since; from a
\* storable one that does not forbid weak validators its If-None-Match is the
\* presented entries followed by the stored ETag, W/ kept, and its
\* If-Modified-Since is the presented one if there is one, else the stored
\* Last-Modified.
C26_RevalidationValidators ==
    Revalidating =>
        LET out == last.result.request.headers
        IN  /\ ~ContainsKey(out, "if-range")
            /\ ~is_storable(policy) =>
                   DOMAIN out \cap {"if-none-match", "if-modified-since"} = {}
            /\ (is_storable(policy) /\ ~WeakForbidden(policy, out)) =>
                   /\ get_all_comma(out, "if-none-match") = Candidates(policy, last.req)
                   /\ Get(out, "if-modified-since") =
                          IF ContainsKey(last.req.headers, "if-modified-since")
                          THEN Get(last.req.headers, "if-modified-since")
                          ELSE Get(policy.res, "last-modified")

\* A weak stored ETag sent after a presented weak entry, with the stored
\* Last-Modified as If-Modified-Since.
C26_Witness ==
    /\ Revalidating /\ is_storable(policy)
    /\ ~WeakForbidden(policy, last.result.request.headers)
    /\ Get(last.result.request.headers, "if-none-match") = Some(<<Weak("v0"), Weak("v1")>>)
    /\ ~ContainsKey(last.req.headers, "if-modified-since")
    /\ Get(last.result.request.headers, "if-modified-since") = Some(fmt_http_date(0))

\* C27: after a 304 reply that matched, the response headers of the new policy
\* have the names of the stored response and no other, a header only the reply
\* has is not added; each has the reply's value if the reply has the name and
\* the name is not Content-Length, Content-Encoding, Transfer-Encoding or
\* Content-Range, and the stored value otherwise; the status of the new policy
\* is the stored one.  Under ignore_cargo_cult the constructor may afterwards
\* rewrite Cache-Control and remove Expires and Pragma.
C27_MergeKeepsStoredNames ==
    NotModified =>
        LET merged == last.result.policy.res
            reply == last.res.headers
            purged == PurgeRewrites(policy)
        IN  /\ DOMAIN merged \subseteq DOMAIN policy.res
            /\ (DOMAIN policy.res) \ purged \subseteq DOMAIN merged
            /\ \A h \in (DOMAIN policy.res) \ purged :
                   merged[h] = IF h \in DOMAIN reply
                                  /\ h \notin {"content-length", "content-encoding",
                                                "transfer-encoding", "content-range"}
                               THEN reply[h]
                               ELSE policy.res[h]
            /\ last.result.policy.status = policy.status

\* A stored weak ETag and Content-Length matched by a 304 with the strong
\* ETag, another Content-Length and an X-Foo the stored response lacks.
C27_Witness ==
    /\ NotModified
    /\ Get(policy.res, "etag") = Some(Weak("v1"))
    /\ Get(policy.res, "content-length") = Some("10")
    /\ ~ContainsKey(policy.res, "x-foo")
    /\ Get(last.res.headers, "content-length") = Some("20")
    /\ Get(last.res.headers, "x-foo") = Some("new")
    /\ Get(last.result.policy.res, "etag") = Some(Strong("v1"))
    /\ Get(last.result.policy.res, "content-length") = Some("10")
    /\ ~ContainsKey(last.result.policy.res, "x-foo")
    /\ last.result.policy.status = 200

\* C28: response parts handed out have no header named by a token of the
\* Connection header of the response they project, Age, Date and Warning
\* included.
C28_ConnectionTokensRemoved ==
    HandedOut =>
        ConnectionTokens(Projected.res) \cap DOMAIN last.result.parts.headers = {}

\* C29: a 304 reply that does not match yields Modified with a policy of
\* status 304; a policy of status 304 is not storable, has max_age 0 and is
\* stale at every instant; and a later 304 reply that matches it yields a
\* policy of status 304 again.
C29_UnmatchedNotModifiedIsNeverFresh ==
    /\ (last.op = "after_response" /\ last.res.status = NOT_MODIFIED
        /\ last.result.kind = "Modified") =>
           /\ ~validator_matches(policy, last.res)
           /\ last.result.policy.status = NOT_MODIFIED
    /\ \A p \in {policy} \cup (IF last.op = "after_response" THEN {last.result.policy} ELSE {}) :
           p.status = NOT_MODIFIED =>
               /\ ~is_storable(p)
               /\ max_age(p) = 0
               /\ \A now \in Times : is_stale(p, now)
    /\ (policy.status = NOT_MODIFIED /\ NotModified) =>
           last.result.policy.status = NOT_MODIFIED

\* A policy of status 304 whose response has a max-age, matched by a further
\* 304 reply.
C29_Witness ==
    /\ policy.status = NOT_MODIFIED
    /\ "max-age" \in DOMAIN policy.res_cc
    /\ NotModified
    /\ last.result.policy.status = NOT_MODIFIED
    /\ ~is_storable(last.result.policy)

\* C30: after a 304 reply that matched at t, the new policy has response time
\* t and the options of the stored one, and its age at t is the Age of the
\* reply if the reply has one and the stored Age otherwise; so a stored
\* response with a max-age and an Age that is not below it, revalidated by a
\* 304 reply without Age, is stale at t and after.
C30_AgeAfterNotModified ==
    NotModified =>
        LET new_policy == last.result.policy
            reply == last.res.headers
        IN  /\ new_policy.response_time = last.now
            /\ new_policy.opts = policy.opts
            /\ age(new_policy, last.now) =
                   IF "age" \in DOMAIN reply THEN SecsOrZero(reply["age"])
                   ELSE StoredAge(policy)
            /\ ("age" \notin DOMAIN reply /\ "max-age" \in DOMAIN policy.res_cc
                /\ StoredAge(policy) >= max_age(policy)) =>
                   \A now \in Times : now >= last.now => is_stale(new_policy, now)

====
